---- MODULE Spec2Model ----
(***************************************************************************)
(* Tournament Manager: fixture generation, standings computation, the       *)
(* Generate Fixtures / Reset handlers of the Streamlit page, and the store  *)
(* calls for scores, stat counters, teams and players made by concurrent    *)
(* sessions, modelled from src/Tournament-Maker-Manager-Streamlit-WebApp.py.*)
(***************************************************************************)
EXTENDS Integers, Sequences, FiniteSets, TLC

VARIABLES
    genTeams,   \* the list object the caller passed to a generator
    genInput,   \* its value before the call
    genOut,     \* the list the generator returned
    genCall,    \* which generator has been called ("none" before the call)
    lbTeams,    \* current_tournament["teams"]: the declared team list
    lbSport,    \* current_tournament["sport"]
    lbMatches,  \* current_tournament["matches"]
    lbOut,      \* the table calculate_leaderboard returned for them
    docType,    \* the stored tournament document: its "type",
    docTeams,   \*   its "teams"
    docMatches, \*   and its "matches"
    view,       \* per session: current_tournament as its script run fetched it
    docPlayers, \* the stored document's "players": team name -> list of players
    docStats,   \* its stat counters: <<category, player>> -> count
    op,         \* per session: the store call it is in, with what the call read
    statStart,  \* history: the counters before the first update_player_stat
    statCalls,  \* history: update_player_stat calls made for each counter
    expected,   \* history: the match list with every returned score update applied
    overlapped  \* history: a score update was written by a call that had read
                \*   the list before another call's write

genVars == <<genTeams, genInput, genOut, genCall>>
lbVars == <<lbTeams, lbSport, lbMatches, lbOut>>
docVars == <<docType, docTeams, docMatches, view>>
callVars == <<docPlayers, docStats, op, statStart, statCalls, expected, overlapped>>
vars == <<genTeams, genInput, genOut, genCall, lbTeams, lbSport, lbMatches, lbOut,
          docType, docTeams, docMatches, view,
          docPlayers, docStats, op, statStart, statCalls, expected, overlapped>>

----------------------------------------------------------------------------
(* Bounds and value domains *)

\* Longest team list handed to a generator.
MaxTeams == 6

\* Most teams of the stored tournament.
MaxDocTeams == 4

\* Browser sessions managing the tournament.
NumSessions == 2

\* Highest score entered for one side of a match.
MaxScore == 1

\* Highest score entered in the three-team Football scenario.
ScenarioMaxScore == 3

TeamNames == <<"A", "B", "C", "D", "E", "F", "G", "H">>

Injective(s) == \A i, j \in DOMAIN s : i # j => s[i] # s[j]

\* The lists made of some of the names of pool, in pool order.  The code compares
\* a team name only with "BYE" and with other names, so a list of distinct names
\* is taken up to renaming; the order the pairing works on is the shuffle's.
SubLists(pool) ==
    {SelectSeq(pool, LAMBDA t : t \in S) : S \in SUBSET {pool[i] : i \in DOMAIN pool}}

\* The team lists handed to a generator: length 0..MaxTeams.
TeamLists == SubLists(SubSeq(TeamNames, 1, MaxTeams))

\* Outcomes of random.shuffle on a list of n elements.
PermTable == [n \in 0..MaxTeams |-> {p \in [1..n -> 1..n] : Injective(p)}]
Perms(n) == PermTable[n]

Range(s) == {s[i] : i \in DOMAIN s}

\* Python's None for an unset score; a set score n is {n}.
None == {}
Some(n) == {n}
Val(s) == CHOOSE x \in s : TRUE

----------------------------------------------------------------------------
(* Match generation logic *)

NewMatch(t1, t2, rnd) ==
    [team1 |-> t1, team2 |-> t2, score1 |-> None, score2 |-> None, round |-> rnd]

NotBye(m) == m.team1 # "BYE" /\ m.team2 # "BYE"

\* Mutant: the matches of a round carry the loop index, counted from 0.
RoundPairsFromZero(active_teams, n, rnd) ==
    SelectSeq([i \in 1..(n \div 2) |->
                  NewMatch(active_teams[i], active_teams[n + 1 - i], rnd)],
              NotBye)

\* One round of the circle method: position i against position n-1-i.
RoundPairs(active_teams, n, rnd) ==
    SelectSeq([i \in 1..(n \div 2) |->
                  NewMatch(active_teams[i], active_teams[n + 1 - i], rnd + 1)],
              NotBye)

\* Mutant: the rotation moves every position, teams[0] included.
RotateAll(active_teams, n) ==
    IF n > 2
    THEN <<active_teams[n]>> \o SubSeq(active_teams, 1, n - 1)
    ELSE active_teams

\* Keep teams[0] fixed, move the last element to position 1.
Rotate(active_teams, n) ==
    IF n > 2
    THEN <<active_teams[1]>> \o <<active_teams[n]>> \o SubSeq(active_teams, 2, n - 1)
    ELSE active_teams

RECURSIVE RoundLoop(_, _, _, _, _)
RoundLoop(active_teams, n, rnd, rounds, all_matches) ==
    IF rnd >= rounds
    THEN all_matches
    ELSE RoundLoop(Rotate(active_teams, n), n, rnd + 1, rounds,
                   all_matches \o RoundPairs(active_teams, n, rnd))

generate_round_robin_matches(teams) ==
    IF Len(teams) < 2
    THEN <<>>
    ELSE LET active_teams == IF Len(teams) % 2 # 0 THEN Append(teams, "BYE") ELSE teams
             n == Len(active_teams)
         IN  RoundLoop(active_teams, n, 0, n - 1, <<>>)

\* random.shuffle(teams): the list is permuted in place; p is the outcome.
Shuffle(teams, p) == [i \in 1..Len(teams) |-> teams[p[i]]]

\* teams.append("BYE") on the caller's list when the count is odd.
PadBye(teams) == IF Len(teams) % 2 # 0 THEN Append(teams, "BYE") ELSE teams

\* Mutant: the pairing loop without the "BYE" test.
KnockoutPairsKeepBye(teams) ==
    [j \in 1..((Len(teams) + 1) \div 2) |->
        NewMatch(teams[2 * j - 1],
                 IF 2 * j <= Len(teams) THEN teams[2 * j] ELSE "BYE",
                 1)]

KnockoutPairs(teams) ==
    SelectSeq([j \in 1..((Len(teams) + 1) \div 2) |->
                  NewMatch(teams[2 * j - 1],
                           IF 2 * j <= Len(teams) THEN teams[2 * j] ELSE "BYE",
                           1)],
              NotBye)

\* Returns the matches and the state the caller's list is left in.
generate_knockout_matches(teams, p) ==
    IF Len(teams) < 2
    THEN [ret |-> <<>>, teams |-> teams]
    ELSE LET padded == PadBye(Shuffle(teams, p))
         IN  [ret |-> KnockoutPairs(padded), teams |-> padded]

WithGroup(m, g) ==
    [team1 |-> m.team1, team2 |-> m.team2, score1 |-> m.score1,
     score2 |-> m.score2, round |-> m.round, group |-> g]

Label(matches, g) == [i \in 1..Len(matches) |-> WithGroup(matches[i], g)]

knockout_match ==
    [team1 |-> "Group A Winner", team2 |-> "Group B Winner",
     score1 |-> None, score2 |-> None, round |-> "Final"]

\* Mutant: the first half rounded up, so an odd list's middle team is in both groups.
GroupACeil(teams) == SubSeq(teams, 1, (Len(teams) + 1) \div 2)

GroupA(teams) == SubSeq(teams, 1, Len(teams) \div 2)
GroupB(teams) == SubSeq(teams, Len(teams) \div 2 + 1, Len(teams))

generate_combination_matches(teams, p) ==
    IF Len(teams) < 4
    THEN [ret |-> <<>>, teams |-> teams]
    ELSE LET shuffled == Shuffle(teams, p)
         IN  [ret |-> Label(generate_round_robin_matches(GroupA(shuffled)), "Group A")
                      \o Label(generate_round_robin_matches(GroupB(shuffled)), "Group B")
                      \o <<knockout_match>>,
              teams |-> shuffled]

----------------------------------------------------------------------------
(* Leaderboard calculation *)

SPORTS_SUPPORTED == <<"Football", "Cricket", "Basketball", "Badminton">>

ScoreBased(sport_type) == sport_type \in {"Football", "Basketball", "Cricket"}

ZeroRecord == [P |-> 0, W |-> 0, D |-> 0, L |-> 0, Pts |-> 0, F |-> 0, A |-> 0, GD |-> 0]

\* {team: {...zeros...} for team in teams}
InitialLeaderboard(teams) == [t \in Range(teams) |-> ZeroRecord]

\* leaderboard[t][field] += n
Add(leaderboard, t, field, n) == [leaderboard EXCEPT ![t][field] = @ + n]

\* Mutant: only team1 is looked up in the leaderboard.
CountedTeam1Only(leaderboard, m) ==
    /\ m.score1 # None
    /\ m.score2 # None
    /\ m.team1 \in DOMAIN leaderboard

\* The two tests that let the loop body reach the counting code.
Counted(leaderboard, m) ==
    /\ m.score1 # None
    /\ m.score2 # None
    /\ m.team1 \in DOMAIN leaderboard
    /\ m.team2 \in DOMAIN leaderboard

Played(leaderboard, t1, t2) == Add(Add(leaderboard, t1, "P", 1), t2, "P", 1)

\* Mutant: each side is credited with the goals it conceded.
ForAgainstSwapped(leaderboard, t1, t2, s1, s2) ==
    Add(Add(Add(Add(leaderboard, t1, "F", s2), t1, "A", s1), t2, "F", s1), t2, "A", s2)

ForAgainst(leaderboard, t1, t2, s1, s2) ==
    Add(Add(Add(Add(leaderboard, t1, "F", s1), t1, "A", s2), t2, "F", s2), t2, "A", s1)

\* Mutant: the winner's points are assigned (=) instead of added (+=).
OutcomeAssign(leaderboard, t1, t2, s1, s2, win_pts, draw_pts) ==
    IF s1 > s2
    THEN [Add(Add(leaderboard, t1, "W", 1), t2, "L", 1) EXCEPT ![t1].Pts = win_pts]
    ELSE IF s1 < s2
    THEN [Add(Add(leaderboard, t2, "W", 1), t1, "L", 1) EXCEPT ![t2].Pts = win_pts]
    ELSE Add(Add(Add(Add(leaderboard, t1, "D", 1), t2, "D", 1),
                 t1, "Pts", draw_pts), t2, "Pts", draw_pts)

\* Won/lost/drawn and points of one match; win_pts is 3 for the score-based
\* sports and 1 for Badminton, draw_pts 1 and 0.
Outcome(leaderboard, t1, t2, s1, s2, win_pts, draw_pts) ==
    IF s1 > s2
    THEN Add(Add(Add(leaderboard, t1, "W", 1), t2, "L", 1), t1, "Pts", win_pts)
    ELSE IF s1 < s2
    THEN Add(Add(Add(leaderboard, t2, "W", 1), t1, "L", 1), t2, "Pts", win_pts)
    ELSE Add(Add(Add(Add(leaderboard, t1, "D", 1), t2, "D", 1),
                 t1, "Pts", draw_pts), t2, "Pts", draw_pts)

\* Mutant: a win is worth 2 points.
ScoreSportUpdateTwo(leaderboard, t1, t2, s1, s2) ==
    LET fa == Add(Add(Add(Add(leaderboard, t1, "F", s1), t1, "A", s2), t2, "F", s2), t2, "A", s1)
    IN  IF s1 > s2
        THEN Add(Add(Add(fa, t1, "W", 1), t2, "L", 1), t1, "Pts", 2)
        ELSE IF s1 < s2
        THEN Add(Add(Add(fa, t2, "W", 1), t1, "L", 1), t2, "Pts", 2)
        ELSE Add(Add(Add(Add(fa, t1, "D", 1), t2, "D", 1), t1, "Pts", 1), t2, "Pts", 1)

ScoreSportUpdate(leaderboard, t1, t2, s1, s2) ==
    Outcome(ForAgainst(leaderboard, t1, t2, s1, s2), t1, t2, s1, s2, 3, 1)

\* Mutant: the set counts are accumulated into F and A as for the other sports.
BadmintonUpdateFA(leaderboard, t1, t2, s1, s2) ==
    LET fa == Add(Add(Add(Add(leaderboard, t1, "F", s1), t1, "A", s2), t2, "F", s2), t2, "A", s1)
    IN  IF s1 > s2
        THEN Add(Add(Add(fa, t1, "W", 1), t2, "L", 1), t1, "Pts", 1)
        ELSE IF s1 < s2
        THEN Add(Add(Add(fa, t2, "W", 1), t1, "L", 1), t2, "Pts", 1)
        ELSE Add(Add(fa, t1, "D", 1), t2, "D", 1)

BadmintonUpdate(leaderboard, t1, t2, s1, s2) ==
    Outcome(leaderboard, t1, t2, s1, s2, 1, 0)

\* The body of `for m in matches`.
ProcessMatch(leaderboard, m, sport_type) ==
    IF ~Counted(leaderboard, m)
    THEN leaderboard
    ELSE LET t1 == m.team1
             t2 == m.team2
             s1 == Val(m.score1)
             s2 == Val(m.score2)
             played == Played(leaderboard, t1, t2)
         IN  IF ScoreBased(sport_type)
             THEN ScoreSportUpdate(played, t1, t2, s1, s2)
             ELSE IF sport_type = "Badminton"
             THEN BadmintonUpdate(played, t1, t2, s1, s2)
             ELSE played

RECURSIVE MatchLoop(_, _, _, _)
MatchLoop(leaderboard, matches, i, sport_type) ==
    IF i > Len(matches)
    THEN leaderboard
    ELSE MatchLoop(ProcessMatch(leaderboard, matches[i], sport_type),
                   matches, i + 1, sport_type)

\* pd.DataFrame.from_dict(leaderboard, orient="index"): one row per key, in the
\* dict's insertion order, which is the order of teams; GD is recomputed as
\* F - A for the score-based sports.
Row(leaderboard, t, sport_type) ==
    LET r == leaderboard[t]
    IN  [Team |-> t, P |-> r.P, W |-> r.W, D |-> r.D, L |-> r.L, Pts |-> r.Pts,
         F |-> r.F, A |-> r.A,
         GD |-> IF ScoreBased(sport_type) THEN r.F - r.A ELSE r.GD]

Rows(leaderboard, teams, sport_type) ==
    [i \in 1..Len(teams) |-> Row(leaderboard, teams[i], sport_type)]

\* by=["Pts", "GD", "F"] or by=["Pts", "W"]
SortKeys(sport_type) ==
    IF ScoreBased(sport_type) THEN <<"Pts", "GD", "F">> ELSE <<"Pts", "W">>

\* Row a sorts strictly before row b: greater on the first key they differ on.
RECURSIVE Before(_, _, _, _)
Before(a, b, keys, k) ==
    IF k > Len(keys)
    THEN FALSE
    ELSE IF a[keys[k]] # b[keys[k]]
    THEN a[keys[k]] > b[keys[k]]
    ELSE Before(a, b, keys, k + 1)

\* Mutant: an unstable sort, a row goes in front of the rows it ties with.
InsertAtUnstable(sorted, row, keys) ==
    Cardinality({j \in DOMAIN sorted : Before(sorted[j], row, keys, 1)}) + 1

\* Where a row goes into an already sorted table: behind every row it does not
\* sort strictly before (sort_values on several columns is a stable lexsort).
InsertAt(sorted, row, keys) ==
    Cardinality({j \in DOMAIN sorted : ~Before(row, sorted[j], keys, 1)}) + 1

Insert(sorted, row, keys) ==
    LET at == InsertAt(sorted, row, keys)
    IN  SubSeq(sorted, 1, at - 1) \o <<row>> \o SubSeq(sorted, at, Len(sorted))

RECURSIVE SortLoop(_, _, _, _)
SortLoop(sorted, rows, i, keys) ==
    IF i > Len(rows)
    THEN sorted
    ELSE SortLoop(Insert(sorted, rows[i], keys), rows, i + 1, keys)

sort_values(rows, keys) == SortLoop(<<>>, rows, 1, keys)

calculate_leaderboard(matches, teams, sport_type) ==
    sort_values(Rows(MatchLoop(InitialLeaderboard(teams), matches, 1, sport_type),
                     teams, sport_type),
                SortKeys(sport_type))

----------------------------------------------------------------------------
(* The generators called on every bounded team list *)

GenIdle ==
    /\ genTeams = <<>>
    /\ genInput = <<>>
    /\ genOut = <<>>
    /\ genCall = "none"

LbIdle ==
    /\ lbTeams = <<>>
    /\ lbSport = "Football"
    /\ lbMatches = <<>>
    /\ lbOut = <<>>

DocIdle ==
    /\ docType = <<"League">>
    /\ docTeams = <<>>
    /\ docMatches = <<>>
    /\ view = [s \in 1..NumSessions |-> [teams |-> <<>>, matches |-> <<>>]]

CallIdle ==
    /\ docPlayers = <<>>
    /\ docStats = <<>>
    /\ op = [s \in 1..NumSessions |-> [pc |-> "idle"]]
    /\ statStart = <<>>
    /\ statCalls = <<>>
    /\ expected = <<>>
    /\ overlapped = FALSE

InitGen ==
    /\ DocIdle
    /\ genTeams \in TeamLists
    /\ genInput = genTeams
    /\ genOut = <<>>
    /\ genCall = "none"
    /\ LbIdle
    /\ CallIdle

CallRoundRobin ==
    /\ genCall = "none"
    /\ genOut' = generate_round_robin_matches(genTeams)
    /\ genCall' = "round_robin"
    /\ UNCHANGED <<genTeams, genInput>>
    /\ UNCHANGED <<lbVars, docVars, callVars>>

CallKnockout ==
    /\ genCall = "none"
    /\ \E p \in Perms(Len(genTeams)) :
          LET r == generate_knockout_matches(genTeams, p)
          IN  /\ genOut' = r.ret
              /\ genTeams' = r.teams
    /\ genCall' = "knockout"
    /\ UNCHANGED genInput
    /\ UNCHANGED <<lbVars, docVars, callVars>>

CallCombination ==
    /\ genCall = "none"
    /\ \E p \in Perms(Len(genTeams)) :
          LET r == generate_combination_matches(genTeams, p)
          IN  /\ genOut' = r.ret
              /\ genTeams' = r.teams
    /\ genCall' = "combination"
    /\ UNCHANGED genInput
    /\ UNCHANGED <<lbVars, docVars, callVars>>

NextGen == CallRoundRobin \/ CallKnockout \/ CallCombination

SpecGen == InitGen /\ [][NextGen]_vars

----------------------------------------------------------------------------
(* Standings of a tournament whose fixtures are generated, scored and whose   *)
(* teams are removed: the inputs the Leaderboard tab hands to                 *)
(* calculate_leaderboard                                                      *)

LBPool == <<"A", "B", "C">>

InitLB ==
    /\ lbTeams \in {l \in SubLists(LBPool) : Len(l) >= 2}
    /\ lbSport \in Range(SPORTS_SUPPORTED)
    /\ lbMatches = <<>>
    /\ lbOut = calculate_leaderboard(<<>>, lbTeams, lbSport)
    /\ GenIdle
    /\ DocIdle
    /\ CallIdle

\* Fixtures of a League: saved, then the page reruns and shows the standings.
LBGenerateRoundRobin ==
    /\ lbMatches = <<>>
    /\ Len(lbTeams) >= 2
    /\ lbMatches' = generate_round_robin_matches(lbTeams)
    /\ lbOut' = calculate_leaderboard(lbMatches', lbTeams, lbSport)
    /\ UNCHANGED <<lbTeams, lbSport>>
    /\ UNCHANGED <<genVars, docVars, callVars>>

\* Fixtures of a Knockout.
LBGenerateKnockout ==
    /\ lbMatches = <<>>
    /\ Len(lbTeams) >= 2
    /\ \E p \in Perms(Len(lbTeams)) :
          lbMatches' = generate_knockout_matches(lbTeams, p).ret
    /\ lbOut' = calculate_leaderboard(lbMatches', lbTeams, lbSport)
    /\ UNCHANGED <<lbTeams, lbSport>>
    /\ UNCHANGED <<genVars, docVars, callVars>>

\* update_match_score on match index with scores up to max, then the rerun.
SetScoreUpTo(max) ==
    /\ \E index \in DOMAIN lbMatches : \E score1, score2 \in 0..max :
          lbMatches' = [lbMatches EXCEPT ![index].score1 = Some(score1),
                                         ![index].score2 = Some(score2)]
    /\ lbOut' = calculate_leaderboard(lbMatches', lbTeams, lbSport)
    /\ UNCHANGED <<lbTeams, lbSport>>
    /\ UNCHANGED <<genVars, docVars, callVars>>

\* remove_team_from_tournament (ArrayRemove on teams): the matches keep the
\* removed name.  The Leaderboard tab computes standings only for a non-empty
\* team list.
LBRemoveTeam ==
    /\ Len(lbTeams) > 1
    /\ \E t \in Range(lbTeams) :
          lbTeams' = SelectSeq(lbTeams, LAMBDA x : x # t)
    /\ lbOut' = calculate_leaderboard(lbMatches, lbTeams', lbSport)
    /\ UNCHANGED <<lbMatches, lbSport>>
    /\ UNCHANGED <<genVars, docVars, callVars>>

LBSetScore == SetScoreUpTo(MaxScore)

NextLB == LBGenerateRoundRobin \/ LBGenerateKnockout \/ LBSetScore \/ LBRemoveTeam

SpecLB == InitLB /\ [][NextLB]_vars

----------------------------------------------------------------------------
(* The Football round-robin scenario: teams A, B, C *)

InitScenario ==
    /\ lbTeams = <<"A", "B", "C">>
    /\ lbSport = "Football"
    /\ lbMatches = <<>>
    /\ lbOut = calculate_leaderboard(<<>>, lbTeams, lbSport)
    /\ GenIdle
    /\ DocIdle
    /\ CallIdle

ScenarioSetScore == SetScoreUpTo(ScenarioMaxScore)

NextScenario == LBGenerateRoundRobin \/ ScenarioSetScore

SpecScenario == InitScenario /\ [][NextScenario]_vars

----------------------------------------------------------------------------
(* The Matches tab of the page: sessions generating the fixtures of the stored *)
(* tournament                                                                  *)

\* The values of TOURNAMENT_TYPES, which create_tournament stores as "type",
\* each as its words: the page tests a type with Python's substring `in`, which
\* for these values and the words tested is membership among the words.
TOURNAMENT_TYPES ==
    <<<<"League">>, <<"Premier", "League">>, <<"Knockout">>, <<"Group", "+", "Knockout">>>>

\* word in type
In(word, type) == word \in Range(type)

Sessions == 1..NumSessions

Fetched == [teams |-> docTeams, matches |-> docMatches]

\* The dispatch of the Generate Fixtures button on current_tournament["type"];
\* p is the outcome of the shuffle.
GeneratedMatches(type, teams, p) ==
    IF In("Knockout", type)
    THEN generate_knockout_matches(teams, p).ret
    ELSE IF In("Combination", type)
    THEN generate_combination_matches(teams, p).ret
    ELSE generate_round_robin_matches(teams)

Init ==
    /\ docType \in Range(TOURNAMENT_TYPES)
    /\ docTeams \in {l \in SubLists(SubSeq(TeamNames, 1, MaxDocTeams)) : Len(l) >= 2}
    /\ docMatches = <<>>
    /\ view = [s \in Sessions |-> Fetched]
    /\ GenIdle
    /\ LbIdle
    /\ CallIdle

\* A script run of session s: get_all_tournaments_data.
Rerun(s) ==
    /\ view' = [view EXCEPT ![s] = Fetched]
    /\ UNCHANGED <<docType, docTeams, docMatches>>
    /\ UNCHANGED <<genVars, lbVars, callVars>>

\* The Generate Fixtures button in session s: shown while the tournament the
\* run fetched has no matches and at least two teams; the generated list is
\* saved with save_matches when it is not empty, and the page reruns.
GenerateFixtures(s) ==
    /\ view[s].matches = <<>>
    /\ Len(view[s].teams) >= 2
    /\ \E p \in Perms(Len(view[s].teams)) :
          LET generated_matches == GeneratedMatches(docType, view[s].teams, p)
          IN  /\ generated_matches # <<>>
              /\ docMatches' = generated_matches
              /\ view' = [view EXCEPT ![s] = [teams |-> docTeams,
                                             matches |-> generated_matches]]
    /\ UNCHANGED <<docType, docTeams>>
    /\ UNCHANGED <<genVars, lbVars, callVars>>

\* The Reset Matches & Stats button in session s: one update that empties the
\* match list and the stat maps, and the page reruns.
ResetMatchesAndStats(s) ==
    /\ docMatches' = <<>>
    /\ docStats' = <<>>
    /\ view' = [view EXCEPT ![s] = [teams |-> docTeams, matches |-> <<>>]]
    /\ UNCHANGED <<docType, docTeams>>
    /\ UNCHANGED <<docPlayers, op, statStart, statCalls, expected, overlapped>>
    /\ UNCHANGED <<genVars, lbVars>>

Next == \E s \in Sessions : Rerun(s) \/ GenerateFixtures(s) \/ ResetMatchesAndStats(s)

Spec == Init /\ [][Next]_vars

----------------------------------------------------------------------------
(* Player statistics: sessions recording goals, assists and the like with   *)
(* update_player_stat                                                       *)

\* Calls of update_player_stat in one run.
MaxStatCalls == 3

StatCategories == {"scorers", "assists"}
StatPlayers == {"p", "q"}
StatKeys == StatCategories \X StatPlayers

\* The counter stored under key, a missing field counting as 0.
Count(stats, key) == IF key \in DOMAIN stats THEN stats[key] ELSE 0

\* Mutant: the transform only changes a counter that is already stored.
IncrementExisting(stats, key, n) ==
    IF key \in DOMAIN stats THEN [stats EXCEPT ![key] = @ + n] ELSE stats

\* The field transform firestore.Increment(n) on field key, which the store
\* applies as one atomic operation: the stored number plus n, a missing field
\* being created as 0 + n.
Increment(stats, key, n) ==
    [k \in DOMAIN stats \cup {key} |-> IF k = key THEN Count(stats, key) + n ELSE stats[k]]

InFlight(key) ==
    {s \in 1..NumSessions : op[s].pc = "increment" /\ op[s].key = key}

StatCallsMade ==
    LET RECURSIVE Sum(_)
        Sum(K) == IF K = {} THEN 0
                  ELSE LET k == CHOOSE x \in K : TRUE IN statCalls[k] + Sum(K \ {k})
    IN  Sum(StatKeys)

\* A tournament whose counters are missing (as created or reset) or were
\* incremented before.
InitStats ==
    /\ \E K \in SUBSET StatKeys : docStats = [k \in K |-> 1]
    /\ statStart = docStats
    /\ statCalls = [k \in StatKeys |-> 0]
    /\ op = [s \in 1..NumSessions |-> [pc |-> "idle"]]
    /\ docPlayers = <<>>
    /\ expected = <<>>
    /\ overlapped = FALSE
    /\ GenIdle
    /\ LbIdle
    /\ DocIdle

\* Session s calls update_player_stat(tid, category, player_name): the update
\* carrying the transform is sent to the store.
StatCall(s) ==
    /\ op[s].pc = "idle"
    /\ StatCallsMade < MaxStatCalls
    /\ \E category \in StatCategories, player_name \in StatPlayers :
          /\ op' = [op EXCEPT ![s] = [pc |-> "increment",
                                      key |-> <<category, player_name>>,
                                      increment_by |-> 1]]
          /\ statCalls' = [statCalls EXCEPT ![<<category, player_name>>] = @ + 1]
    /\ UNCHANGED <<docPlayers, docStats, statStart, expected, overlapped>>
    /\ UNCHANGED <<genVars, lbVars, docVars>>

\* The store applies the transform of session s's update and the call returns.
StatApply(s) ==
    /\ op[s].pc = "increment"
    /\ docStats' = Increment(docStats, op[s].key, op[s].increment_by)
    /\ op' = [op EXCEPT ![s] = [pc |-> "idle"]]
    /\ UNCHANGED <<docPlayers, statStart, statCalls, expected, overlapped>>
    /\ UNCHANGED <<genVars, lbVars, docVars>>

NextStats == \E s \in 1..NumSessions : StatCall(s) \/ StatApply(s)

SpecStats == InitStats /\ [][NextStats]_vars

----------------------------------------------------------------------------
(* Score entry: sessions saving the score of a match with update_match_score *)

\* Mutant: the call takes the match list from the session's cached tournament.
ReadMatchesCached(s) == view[s].matches

\* doc.to_dict().get("matches", []) of the document the call gets from the store.
ReadMatches(s) == docMatches

\* 0 <= index < len(matches), index counting from 0.
InRange(index, matches) == 0 <= index /\ index < Len(matches)

\* matches[index]["score1"] = score1; matches[index]["score2"] = score2
SetScores(matches, index, score1, score2) ==
    [matches EXCEPT ![index + 1].score1 = Some(score1),
                    ![index + 1].score2 = Some(score2)]

\* A League of three teams whose fixtures are generated and shown in every
\* session.
InitScore ==
    /\ docType = <<"League">>
    /\ docTeams = <<"A", "B", "C">>
    /\ docMatches = generate_round_robin_matches(docTeams)
    /\ view = [s \in 1..NumSessions |-> Fetched]
    /\ op = [s \in 1..NumSessions |-> [pc |-> "idle"]]
    /\ expected = docMatches
    /\ overlapped = FALSE
    /\ docPlayers = <<>>
    /\ docStats = <<>>
    /\ statStart = <<>>
    /\ statCalls = <<>>
    /\ GenIdle
    /\ LbIdle

\* Session s enters update_match_score(tid, index, score1, score2) and gets the
\* document: the call now holds its own copy of the whole match list.  The
\* field stale records whether another call has written since (history).
UpdateRead(s, Indexes, Scores) ==
    /\ op[s].pc = "idle"
    /\ \E index \in Indexes, score1, score2 \in Scores :
          op' = [op EXCEPT ![s] = [pc |-> "read", index |-> index,
                                   score1 |-> score1, score2 |-> score2,
                                   matches |-> ReadMatches(s), stale |-> FALSE]]
    /\ UNCHANGED <<docPlayers, docStats, statStart, statCalls, expected, overlapped>>
    /\ UNCHANGED <<genVars, lbVars, docVars>>

\* The rest of the call: the index test, the two assignments on the copy, and
\* the write of the whole list back to the store; or False without a write.
UpdateWrite(s) ==
    /\ op[s].pc = "read"
    /\ IF InRange(op[s].index, op[s].matches)
       THEN /\ docMatches' =
                  SetScores(op[s].matches, op[s].index, op[s].score1, op[s].score2)
            /\ expected' = SetScores(expected, op[s].index, op[s].score1, op[s].score2)
            /\ overlapped' = (overlapped \/ op[s].stale)
            /\ op' = [t \in 1..NumSessions |->
                         IF t = s
                         THEN [pc |-> "done", ret |-> TRUE, index |-> op[s].index,
                               score1 |-> op[s].score1, score2 |-> op[s].score2]
                         ELSE IF op[t].pc = "read"
                         THEN [op[t] EXCEPT !.stale = TRUE]
                         ELSE op[t]]
       ELSE /\ op' = [op EXCEPT ![s] = [pc |-> "done", ret |-> FALSE,
                                        index |-> op[s].index,
                                        score1 |-> op[s].score1,
                                        score2 |-> op[s].score2]]
            /\ UNCHANGED <<docMatches, expected, overlapped>>
    /\ UNCHANGED <<docType, docTeams, view>>
    /\ UNCHANGED <<docPlayers, docStats, statStart, statCalls>>
    /\ UNCHANGED <<genVars, lbVars>>

\* The Update Score button of match i of the list the session shows, with the
\* two number inputs, whose minimum is 0.
UpdateScoreButton(s) ==
    UpdateRead(s, 0..(Len(view[s].matches) - 1), 0..MaxScore)

NextScore == \E s \in 1..NumSessions : UpdateScoreButton(s) \/ UpdateWrite(s)

SpecScore == InitScore /\ [][NextScore]_vars

\* update_match_score called on every index from -1 to the length of the list
\* and every score from -1 to MaxScore.
UpdateCall(s) ==
    UpdateRead(s, (-1)..Len(docMatches), (-1)..MaxScore)

NextScoreArgs == \E s \in 1..NumSessions : UpdateCall(s) \/ UpdateWrite(s)

SpecScoreArgs == InitScore /\ [][NextScoreArgs]_vars

----------------------------------------------------------------------------
(* Teams and players: sessions adding and removing teams and players on the *)
(* Teams & Players tab                                                      *)

TeamPool == {"A", "B"}
PlayerPool == {"p"}

\* firestore.ArrayUnion([x]) and firestore.ArrayRemove([x]) on a stored list.
ArrayUnion(list, x) == IF x \in Range(list) THEN list ELSE Append(list, x)
ArrayRemove(list, x) == SelectSeq(list, LAMBDA y : y # x)

\* del players[team_name]
DelKey(players, team_name) == [t \in DOMAIN players \ {team_name} |-> players[t]]

\* The update of the field players.<team_name> to value.
SetKey(players, team_name, value) ==
    [t \in DOMAIN players \cup {team_name} |->
        IF t = team_name THEN value ELSE players[t]]

\* list.remove(x): the first occurrence goes.
RemoveFirst(list, x) ==
    LET i == CHOOSE j \in DOMAIN list :
                 list[j] = x /\ \A k \in 1..(j - 1) : list[k] # x
    IN  SubSeq(list, 1, i - 1) \o SubSeq(list, i + 1, Len(list))

\* players.get(team, [])
Roster(players, team) == IF team \in DOMAIN players THEN players[team] ELSE <<>>

\* What a script run fetches of the tournament.
FetchedRoster(teams, players) == [teams |-> teams, matches |-> <<>>, players |-> players]

teamsFrame == <<docType, docMatches, docStats, statStart, statCalls, expected, overlapped>>

\* A tournament as create_tournament stores it, open in every session.
InitTeams ==
    /\ docType = <<"League">>
    /\ docTeams = <<>>
    /\ docMatches = <<>>
    /\ docPlayers = <<>>
    /\ view = [s \in 1..NumSessions |-> FetchedRoster(docTeams, docPlayers)]
    /\ op = [s \in 1..NumSessions |-> [pc |-> "idle"]]
    /\ docStats = <<>>
    /\ statStart = <<>>
    /\ statCalls = <<>>
    /\ expected = <<>>
    /\ overlapped = FALSE
    /\ GenIdle
    /\ LbIdle

\* A script run of session s between two button presses.
RerunTeams(s) ==
    /\ op[s].pc = "idle"
    /\ view' = [view EXCEPT ![s] = FetchedRoster(docTeams, docPlayers)]
    /\ UNCHANGED <<docTeams, docPlayers, op>>
    /\ UNCHANGED <<teamsFrame, genVars, lbVars>>

\* The Add Team button for a name the session does not show among the teams:
\* add_team_to_tournament, first update (ArrayUnion on teams).  The field
\* present records whether the store had the name before the call (history).
AddTeamUnion(s) ==
    /\ op[s].pc = "idle"
    /\ \E team_name \in TeamPool :
          /\ team_name \notin Range(view[s].teams)
          /\ docTeams' = ArrayUnion(docTeams, team_name)
          /\ op' = [op EXCEPT ![s] = [pc |-> "add_team", team_name |-> team_name,
                                      present |-> team_name \in Range(docTeams)]]
    /\ UNCHANGED <<docPlayers, view>>
    /\ UNCHANGED <<teamsFrame, genVars, lbVars>>

\* add_team_to_tournament, second update (players.<team_name> = []), and the
\* rerun of the page.
AddTeamPlayers(s) ==
    /\ op[s].pc = "add_team"
    /\ docPlayers' = SetKey(docPlayers, op[s].team_name, <<>>)
    /\ op' = [op EXCEPT ![s] = [pc |-> "idle"]]
    /\ view' = [view EXCEPT ![s] = FetchedRoster(docTeams, docPlayers')]
    /\ UNCHANGED docTeams
    /\ UNCHANGED <<teamsFrame, genVars, lbVars>>

\* The Remove Team button for a team the session shows:
\* remove_team_from_tournament, the update (ArrayRemove on teams).
RemoveTeamArray(s) ==
    /\ op[s].pc = "idle"
    /\ \E team_name \in Range(view[s].teams) :
          /\ docTeams' = ArrayRemove(docTeams, team_name)
          /\ op' = [op EXCEPT ![s] = [pc |-> "remove_team", team_name |-> team_name]]
    /\ UNCHANGED <<docPlayers, view>>
    /\ UNCHANGED <<teamsFrame, genVars, lbVars>>

\* remove_team_from_tournament gets the document.
RemoveTeamRead(s) ==
    /\ op[s].pc = "remove_team"
    /\ op' = [op EXCEPT ![s] = [pc |-> "remove_team_read",
                                team_name |-> op[s].team_name,
                                players |-> docPlayers]]
    /\ UNCHANGED <<docTeams, docPlayers, view>>
    /\ UNCHANGED <<teamsFrame, genVars, lbVars>>

\* remove_team_from_tournament deletes the team's key from the map it read
\* and writes the whole map; the page reruns.
RemoveTeamWrite(s) ==
    /\ op[s].pc = "remove_team_read"
    /\ docPlayers' = IF op[s].team_name \in DOMAIN op[s].players
                     THEN DelKey(op[s].players, op[s].team_name)
                     ELSE docPlayers
    /\ op' = [op EXCEPT ![s] = [pc |-> "idle"]]
    /\ view' = [view EXCEPT ![s] = FetchedRoster(docTeams, docPlayers')]
    /\ UNCHANGED docTeams
    /\ UNCHANGED <<teamsFrame, genVars, lbVars>>

\* The Add Player button for a team the session shows: add_player_to_team gets
\* the document.
AddPlayerRead(s) ==
    /\ op[s].pc = "idle"
    /\ \E team_name \in Range(view[s].teams), player_name \in PlayerPool :
          op' = [op EXCEPT ![s] = [pc |-> "add_player", team_name |-> team_name,
                                   player_name |-> player_name,
                                   players |-> docPlayers]]
    /\ UNCHANGED <<docTeams, docPlayers, view>>
    /\ UNCHANGED <<teamsFrame, genVars, lbVars>>

\* add_player_to_team appends the player to the roster it read and writes
\* the whole map, then the page reruns; or returns False.
AddPlayerWrite(s) ==
    /\ op[s].pc = "add_player"
    /\ IF /\ op[s].team_name \in DOMAIN op[s].players
          /\ op[s].player_name \notin Range(op[s].players[op[s].team_name])
       THEN /\ docPlayers' = [op[s].players EXCEPT
                                 ![op[s].team_name] = Append(@, op[s].player_name)]
            /\ view' = [view EXCEPT ![s] = FetchedRoster(docTeams, docPlayers')]
       ELSE UNCHANGED <<docPlayers, view>>
    /\ op' = [op EXCEPT ![s] = [pc |-> "idle"]]
    /\ UNCHANGED docTeams
    /\ UNCHANGED <<teamsFrame, genVars, lbVars>>

\* The Remove Player button for a player of the roster the session shows:
\* remove_player_from_team gets the document.
RemovePlayerRead(s) ==
    /\ op[s].pc = "idle"
    /\ \E team_name \in Range(view[s].teams) :
       \E player_name \in Range(Roster(view[s].players, team_name)) :
          op' = [op EXCEPT ![s] = [pc |-> "remove_player", team_name |-> team_name,
                                   player_name |-> player_name,
                                   players |-> docPlayers]]
    /\ UNCHANGED <<docTeams, docPlayers, view>>
    /\ UNCHANGED <<teamsFrame, genVars, lbVars>>

\* remove_player_from_team removes the player from the roster it read and
\* writes the whole map, then the page reruns; or returns False.
RemovePlayerWrite(s) ==
    /\ op[s].pc = "remove_player"
    /\ IF /\ op[s].team_name \in DOMAIN op[s].players
          /\ op[s].player_name \in Range(op[s].players[op[s].team_name])
       THEN /\ docPlayers' = [op[s].players EXCEPT
                                 ![op[s].team_name] = RemoveFirst(@, op[s].player_name)]
            /\ view' = [view EXCEPT ![s] = FetchedRoster(docTeams, docPlayers')]
       ELSE UNCHANGED <<docPlayers, view>>
    /\ op' = [op EXCEPT ![s] = [pc |-> "idle"]]
    /\ UNCHANGED docTeams
    /\ UNCHANGED <<teamsFrame, genVars, lbVars>>

NextTeams ==
    \E s \in 1..NumSessions :
        \/ RerunTeams(s)
        \/ AddTeamUnion(s) \/ AddTeamPlayers(s)
        \/ RemoveTeamArray(s) \/ RemoveTeamRead(s) \/ RemoveTeamWrite(s)
        \/ AddPlayerRead(s) \/ AddPlayerWrite(s)
        \/ RemovePlayerRead(s) \/ RemovePlayerWrite(s)

SpecTeams == InitTeams /\ [][NextTeams]_vars

----------------------------------------------------------------------------
(* Properties of the generators *)

Choose2(k) == (k * (k - 1)) \div 2

\* The matches of a list that pair a with b, in either orientation.
Pairing(matches, a, b) ==
    {i \in DOMAIN matches : {matches[i].team1, matches[i].team2} = {a, b}}

\* How many times team t is team1 or team2 of a match of the list.
Appearances(matches, t) ==
    Cardinality({i \in DOMAIN matches : matches[i].team1 = t})
        + Cardinality({i \in DOMAIN matches : matches[i].team2 = t})

\* C1: round-robin generation on k >= 2 distinct teams returns exactly C(k,2)
\* matches, pairs every unordered pair of input teams exactly once, and emits no
\* match with "BYE" on either side, for even and odd k.
C1_RoundRobinComplete ==
    (genCall = "round_robin" /\ Len(genInput) >= 2) =>
        /\ Len(genOut) = Choose2(Len(genInput))
        /\ \A a, b \in Range(genInput) :
              a # b => Cardinality(Pairing(genOut, a, b)) = 1
        /\ \A i \in DOMAIN genOut : NotBye(genOut[i])

C1_Witness ==
    /\ genCall = "round_robin"
    /\ Len(genInput) = 5
    /\ Len(genOut) = 10

\* C2: knockout generation on k >= 2 distinct teams returns floor(k/2) matches
\* for every shuffle outcome, none with "BYE", all tagged round 1, each input team
\* in at most one match, and with odd k exactly one team without a match.
C2_KnockoutFirstRound ==
    (genCall = "knockout" /\ Len(genInput) >= 2) =>
        /\ Len(genOut) = Len(genInput) \div 2
        /\ \A i \in DOMAIN genOut :
              /\ NotBye(genOut[i])
              /\ genOut[i].round = 1
              /\ {genOut[i].team1, genOut[i].team2} \subseteq Range(genInput)
        /\ \A t \in Range(genInput) : Appearances(genOut, t) <= 1
        /\ Len(genInput) % 2 = 1 =>
              Cardinality({t \in Range(genInput) : Appearances(genOut, t) = 0}) = 1

C2_Witness ==
    /\ genCall = "knockout"
    /\ Len(genInput) = 5
    /\ Len(genOut) = 2

\* The teams that play a match labelled with group g.
GroupTeams(matches, g) ==
    UNION {{matches[i].team1, matches[i].team2} :
              i \in {j \in DOMAIN matches :
                        "group" \in DOMAIN matches[j] /\ matches[j].group = g}}

\* C3: combination generation on k >= 4 distinct teams splits them into Group A
\* of floor(k/2) and Group B of the other ceil(k/2) teams, returns a complete
\* round-robin inside each group labelled with the group, no match across
\* groups, and last exactly one unscored "Group A Winner" vs "Group B Winner"
\* match with round "Final": C(|A|,2) + C(|B|,2) + 1 matches in all.
C3_CombinationGroups ==
    (genCall = "combination" /\ Len(genInput) >= 4) =>
        LET k == Len(genInput)
            A == GroupTeams(genOut, "Group A")
            B == GroupTeams(genOut, "Group B")
            groupStage == 1..(Len(genOut) - 1)
        IN  /\ Len(genOut) = Choose2(k \div 2) + Choose2(k - k \div 2) + 1
            /\ Cardinality(A) = k \div 2
            /\ Cardinality(B) = k - k \div 2
            /\ A \cap B = {}
            /\ A \cup B = Range(genInput)
            /\ \A i \in groupStage :
                  /\ "group" \in DOMAIN genOut[i]
                  /\ \/ genOut[i].group = "Group A"
                        /\ {genOut[i].team1, genOut[i].team2} \subseteq A
                     \/ genOut[i].group = "Group B"
                        /\ {genOut[i].team1, genOut[i].team2} \subseteq B
                  /\ genOut[i].team1 # genOut[i].team2
            /\ \A g \in {A, B} : \A a, b \in g :
                  a # b => Cardinality(Pairing(SubSeq(genOut, 1, Len(genOut) - 1), a, b)) = 1
            /\ genOut[Len(genOut)] =
                  [team1 |-> "Group A Winner", team2 |-> "Group B Winner",
                   score1 |-> None, score2 |-> None, round |-> "Final"]

C3_Witness ==
    /\ genCall = "combination"
    /\ Len(genInput) = 5
    /\ Len(genOut) = 5
    /\ Cardinality(GroupTeams(genOut, "Group A")) = 2
    /\ Cardinality(GroupTeams(genOut, "Group B")) = 3

----------------------------------------------------------------------------
(* Properties of the Generate Fixtures dispatch *)

\* C4: the saved fixtures are chosen by the stored type: round-robin for League
\* and Premier League, first-round pairings for Knockout, and for Group +
\* Knockout group-labelled matches followed by the "Final" placeholder.
C4_DispatchByType ==
    docMatches # <<>> =>
        LET last == docMatches[Len(docMatches)]
            placeholder == last.team1 = "Group A Winner" /\ last.team2 = "Group B Winner"
        IN  IF docType = <<"Group", "+", "Knockout">>
            THEN /\ placeholder
                 /\ \A i \in 1..(Len(docMatches) - 1) : "group" \in DOMAIN docMatches[i]
            ELSE IF docType = <<"Knockout">>
            THEN /\ ~placeholder
                 /\ Len(docMatches) = Len(docTeams) \div 2
                 /\ \A i \in DOMAIN docMatches : docMatches[i].round = 1
            ELSE /\ ~placeholder
                 /\ docMatches = generate_round_robin_matches(docTeams)

----------------------------------------------------------------------------
(* Properties of the standings *)

Declared(t) == t \in Range(lbTeams)

\* A match the standings count: both scores set, both teams declared.
Complete(m) ==
    /\ m.score1 # None
    /\ m.score2 # None
    /\ Declared(m.team1)
    /\ Declared(m.team2)

PlayedBy(t) ==
    {i \in DOMAIN lbMatches :
        Complete(lbMatches[i]) /\ t \in {lbMatches[i].team1, lbMatches[i].team2}}

OwnScore(i, t) ==
    IF lbMatches[i].team1 = t THEN Val(lbMatches[i].score1) ELSE Val(lbMatches[i].score2)

OtherScore(i, t) ==
    IF lbMatches[i].team1 = t THEN Val(lbMatches[i].score2) ELSE Val(lbMatches[i].score1)

RECURSIVE SumOwn(_, _)
SumOwn(S, t) ==
    IF S = {} THEN 0
    ELSE LET i == CHOOSE x \in S : TRUE IN OwnScore(i, t) + SumOwn(S \ {i}, t)

RECURSIVE SumOther(_, _)
SumOther(S, t) ==
    IF S = {} THEN 0
    ELSE LET i == CHOOSE x \in S : TRUE IN OtherScore(i, t) + SumOther(S \ {i}, t)

WonBy(t) == {i \in PlayedBy(t) : OwnScore(i, t) > OtherScore(i, t)}
LostBy(t) == {i \in PlayedBy(t) : OwnScore(i, t) < OtherScore(i, t)}
DrawnBy(t) == {i \in PlayedBy(t) : OwnScore(i, t) = OtherScore(i, t)}

\* The row of team t in the returned table.
RowOf(t) == lbOut[CHOOSE j \in DOMAIN lbOut : lbOut[j].Team = t]

\* C5: for Football, Cricket and Basketball every counted match adds 1 to P of
\* both sides, its scores to F and A of each side, W+1 and Pts+3 to the higher
\* scorer and L+1 to the other, or D+1 and Pts+1 to both on equal scores (0-0
\* included); GD of every team is F - A.
C5_ScoreSportRecords ==
    ScoreBased(lbSport) =>
        \A t \in Range(lbTeams) :
            LET r == RowOf(t)
            IN  /\ r.P = Cardinality(PlayedBy(t))
                /\ r.W = Cardinality(WonBy(t))
                /\ r.L = Cardinality(LostBy(t))
                /\ r.D = Cardinality(DrawnBy(t))
                /\ r.Pts = 3 * Cardinality(WonBy(t)) + Cardinality(DrawnBy(t))
                /\ r.F = SumOwn(PlayedBy(t), t)
                /\ r.A = SumOther(PlayedBy(t), t)
                /\ r.GD = r.F - r.A

C5_Witness ==
    /\ ScoreBased(lbSport)
    /\ \E t \in Range(lbTeams) :
          /\ WonBy(t) # {}
          /\ \E i \in DrawnBy(t) : OwnScore(i, t) = 0
          /\ RowOf(t).Pts = 4
    /\ \E t \in Range(lbTeams) : LostBy(t) # {} /\ RowOf(t).GD < 0

\* C6: for Badminton every counted match gives W+1 and Pts+1 to the side with
\* the higher set count and L+1 to the other, D+1 and no points to both on equal
\* counts, and F, A and GD of every team stay 0.
C6_BadmintonRecords ==
    lbSport = "Badminton" =>
        \A t \in Range(lbTeams) :
            LET r == RowOf(t)
            IN  /\ r.P = Cardinality(PlayedBy(t))
                /\ r.W = Cardinality(WonBy(t))
                /\ r.L = Cardinality(LostBy(t))
                /\ r.D = Cardinality(DrawnBy(t))
                /\ r.Pts = Cardinality(WonBy(t))
                /\ r.F = 0
                /\ r.A = 0
                /\ r.GD = 0

C6_Witness ==
    /\ lbSport = "Badminton"
    /\ \E t \in Range(lbTeams) :
          /\ \E i \in WonBy(t) : OwnScore(i, t) = 1 /\ OtherScore(i, t) = 0
          /\ DrawnBy(t) # {}
          /\ RowOf(t).Pts = 1

\* The match list without its entry i.
Without(matches, i) == SubSeq(matches, 1, i - 1) \o SubSeq(matches, i + 1, Len(matches))

\* C7: a match with a score unset, or with a team that is not declared, changes
\* no field of any record (the record of its declared team included): the table
\* is the one computed without it, and it has exactly one row per declared team.
C7_UncountedMatchesIgnored ==
    /\ Len(lbOut) = Len(lbTeams)
    /\ \A t \in Range(lbTeams) :
          Cardinality({j \in DOMAIN lbOut : lbOut[j].Team = t}) = 1
    /\ \A i \in DOMAIN lbMatches :
          ~Complete(lbMatches[i]) =>
              lbOut = calculate_leaderboard(Without(lbMatches, i), lbTeams, lbSport)

C7_Witness ==
    /\ \E i \in DOMAIN lbMatches :
          /\ lbMatches[i].score1 # None
          /\ Declared(lbMatches[i].team1)
          /\ ~Declared(lbMatches[i].team2)
          /\ Val(lbMatches[i].score1) > Val(lbMatches[i].score2)
          /\ RowOf(lbMatches[i].team1).P = 0
    /\ \E i \in DOMAIN lbMatches :
          lbMatches[i].score1 = None /\ Complete([lbMatches[i] EXCEPT !.score1 = Some(0),
                                                                       !.score2 = Some(0)])

\* Position of a declared team in the declared list.
Pos(t) == CHOOSE i \in DOMAIN lbTeams : lbTeams[i] = t

\* C8: the table is in descending order of (Pts, GD, F) for Football, Cricket
\* and Basketball and of (Pts, W) for Badminton, and rows equal on every sort
\* key are in the order of the declared team list.
C8_TableOrder ==
    \A i, j \in DOMAIN lbOut :
        i < j =>
            LET a == lbOut[i]
                b == lbOut[j]
            IN  IF ScoreBased(lbSport)
                THEN \/ a.Pts > b.Pts
                     \/ a.Pts = b.Pts /\ a.GD > b.GD
                     \/ a.Pts = b.Pts /\ a.GD = b.GD /\ a.F > b.F
                     \/ a.Pts = b.Pts /\ a.GD = b.GD /\ a.F = b.F
                        /\ Pos(a.Team) < Pos(b.Team)
                ELSE \/ a.Pts > b.Pts
                     \/ a.Pts = b.Pts /\ a.W > b.W
                     \/ a.Pts = b.Pts /\ a.W = b.W /\ Pos(a.Team) < Pos(b.Team)

C8_Witness ==
    /\ ScoreBased(lbSport)
    /\ Len(lbOut) = 3
    /\ lbOut[1].Team # lbTeams[1]
    /\ lbOut[1].Pts = lbOut[2].Pts /\ lbOut[1].GD = lbOut[2].GD
    /\ lbOut[1].F > lbOut[2].F
    /\ lbOut[2].Pts = lbOut[3].Pts /\ lbOut[2].GD = lbOut[3].GD
    /\ lbOut[2].F = lbOut[3].F /\ lbOut[2].P > 0

AllScored(matches) ==
    \A i \in DOMAIN matches : matches[i].score1 # None /\ matches[i].score2 # None

Permuted(matches, p) == [i \in 1..Len(matches) |-> matches[p[i]]]

\* team1/score1 and team2/score2 of entry i exchanged.
SwapSides(matches, i) ==
    [matches EXCEPT ![i].team1 = matches[i].team2, ![i].team2 = matches[i].team1,
                    ![i].score1 = matches[i].score2, ![i].score2 = matches[i].score1]

\* C9: for a fully scored match list the table (records and order) is the same
\* for every permutation of the list, and when the two sides of a match are
\* exchanged together with their scores.
C9_MatchOrderIrrelevant ==
    (lbMatches # <<>> /\ AllScored(lbMatches)) =>
        /\ \A p \in Perms(Len(lbMatches)) :
              calculate_leaderboard(Permuted(lbMatches, p), lbTeams, lbSport) = lbOut
        /\ \A i \in DOMAIN lbMatches :
              calculate_leaderboard(SwapSides(lbMatches, i), lbTeams, lbSport) = lbOut

C9_Witness ==
    /\ Len(lbMatches) = 3
    /\ AllScored(lbMatches)
    /\ Len(lbTeams) = 3
    /\ \E t \in Range(lbTeams) : WonBy(t) # {} /\ DrawnBy(t) # {}
    /\ \E t \in Range(lbTeams) : Cardinality(LostBy(t)) = 1 /\ Cardinality(PlayedBy(t)) = 2

\* Some match of the list is x against y with x scoring sx and y scoring sy.
HasResult(x, y, sx, sy) ==
    \E i \in DOMAIN lbMatches :
        \/ lbMatches[i] = [NewMatch(x, y, lbMatches[i].round)
                              EXCEPT !.score1 = Some(sx), !.score2 = Some(sy)]
        \/ lbMatches[i] = [NewMatch(y, x, lbMatches[i].round)
                              EXCEPT !.score1 = Some(sy), !.score2 = Some(sx)]

\* Teams ["A","B","C"], Football, round-robin fixtures.
ScenarioFixtures ==
    /\ lbTeams = <<"A", "B", "C">>
    /\ lbSport = "Football"
    /\ Len(lbMatches) = 3

\* ... scored A-B 2-1, A-C 1-1, B-C 0-3.
ScenarioScored ==
    /\ ScenarioFixtures
    /\ HasResult("A", "B", 2, 1)
    /\ HasResult("A", "C", 1, 1)
    /\ HasResult("B", "C", 0, 3)

ThreePairings ==
    /\ Cardinality(Pairing(lbMatches, "A", "B")) = 1
    /\ Cardinality(Pairing(lbMatches, "A", "C")) = 1
    /\ Cardinality(Pairing(lbMatches, "B", "C")) = 1

Stats(row) == <<row.P, row.W, row.D, row.L, row.Pts, row.F, row.A, row.GD>>

\* C10 as the specification states it: in the scenario B has P2 W1 D0 L1 Pts3
\* F3 A3 GD0 and A has P2 W1 D1 L0 Pts4 F3 A2 GD1.
C10_ScenarioAsStated ==
    /\ ScenarioFixtures => ThreePairings
    /\ ScenarioScored =>
          /\ Stats(RowOf("B")) = <<2, 1, 0, 1, 3, 3, 3, 0>>
          /\ Stats(RowOf("A")) = <<2, 1, 1, 0, 4, 3, 2, 1>>

\* C10 (amended): in the scenario the fixtures are A-B, A-C, B-C, A has P2 W1 D1
\* L0 Pts4 F3 A2 GD1, and B, which lost both its matches, has P2 W0 D0 L2 Pts0
\* F1 A5 GD-4.
C10_ScenarioAmended ==
    /\ ScenarioFixtures => ThreePairings
    /\ ScenarioScored =>
          /\ Stats(RowOf("B")) = <<2, 0, 0, 2, 0, 1, 5, -4>>
          /\ Stats(RowOf("A")) = <<2, 1, 1, 0, 4, 3, 2, 1>>

C10_Witness ==
    /\ ScenarioScored
    /\ <<lbOut[1].Team, lbOut[2].Team, lbOut[3].Team>> = <<"C", "A", "B">>

----------------------------------------------------------------------------
(* Properties of the stat counters *)

\* C11: a stat update is one atomic increment in the store: whatever the
\* interleaving of the concurrent calls update_player_stat(tid, category,
\* player, 1), each counter holds its starting value plus the number of calls
\* made for it less those still in flight, so start + N once the N calls have
\* returned; a counter that was missing is created as if it had been 0.
C11_AtomicIncrement ==
    \A key \in StatKeys :
        statCalls # <<>> =>
            /\ Count(docStats, key) =
                  Count(statStart, key) + statCalls[key] - Cardinality(InFlight(key))
            /\ (statCalls[key] > Cardinality(InFlight(key))) => key \in DOMAIN docStats

\* Two calls in flight together on a missing counter have both returned: 2.
C11_Witness ==
    \E key \in StatKeys :
        /\ statCalls # <<>>
        /\ key \notin DOMAIN statStart
        /\ statCalls[key] = 2
        /\ InFlight(key) = {}
        /\ docStats[key] = 2

----------------------------------------------------------------------------
(* Properties of score entry *)

Returned(s) == op[s].pc = "done" /\ op[s].ret

\* The match at index holds the scores the call of session s was given.
Present(s) ==
    /\ docMatches[op[s].index + 1].score1 = Some(op[s].score1)
    /\ docMatches[op[s].index + 1].score2 = Some(op[s].score2)

\* C12: update_match_score reads the whole match list, changes one entry and
\* writes the whole list back.  While no call has written a list it read before
\* another call's write, that is while the calls have not overlapped, the
\* stored list holds every score update that returned; the lost update of two
\* overlapping calls on different indices is the state C12_Witness.
C12_NoOverlapNoLoss ==
    (expected # <<>> /\ ~overlapped) => docMatches = expected

\* Two calls on different indices overlapped and both returned True: the update
\* of the second writer is stored, that of the first is gone.
C12_Witness ==
    \E s, t \in 1..NumSessions :
        /\ Returned(s) /\ Returned(t)
        /\ op[s].index # op[t].index
        /\ overlapped
        /\ Present(t)
        /\ docMatches[op[s].index + 1].score1 = None
        /\ docMatches[op[s].index + 1].score2 = None

\* C14: update_match_score with a negative score1 or score2 returns failure and
\* writes nothing: no returned call with a negative score reports success, and
\* no stored score is negative.
C14_NegativeScoreRejected ==
    /\ \A s \in 1..NumSessions :
          (op[s].pc = "done" /\ (op[s].score1 < 0 \/ op[s].score2 < 0)) => ~op[s].ret
    /\ \A i \in DOMAIN docMatches :
          /\ docMatches[i].score1 # None => Val(docMatches[i].score1) >= 0
          /\ docMatches[i].score2 # None => Val(docMatches[i].score2) >= 0

----------------------------------------------------------------------------
(* Properties of the stored fixtures *)

\* The pairings of a match list: who plays whom, match by match.
Pairings(matches) == [i \in DOMAIN matches |-> <<matches[i].team1, matches[i].team2>>]

\* C13: fixtures are generated at most once unless reset: whatever the sessions
\* do on their own, possibly stale, copies, once the stored match list is not
\* empty a step either keeps its pairings or is the reset that empties it; no
\* Generate Fixtures step replaces it.
C13_GeneratedOnce ==
    [][docMatches # <<>> =>
          (Pairings(docMatches') = Pairings(docMatches) \/ docMatches' = <<>>)]_vars

----------------------------------------------------------------------------
(* Properties of the team list and the player rosters *)

\* C15: add_team_to_tournament with a name already in the tournament leaves the
\* team list unchanged and without a duplicate, and the roster stored for that
\* team the same as before the call: neither update of such a call changes
\* what is stored.
C15_DuplicateAddKeepsRoster ==
    [][\A s \in 1..NumSessions :
          /\ (op[s].pc = "idle" /\ op'[s].pc = "add_team" /\ op'[s].present) =>
                (docTeams' = docTeams /\ Injective(docTeams'))
          /\ (op[s].pc = "add_team" /\ op'[s].pc = "idle" /\ op[s].present
                 /\ op[s].team_name \in DOMAIN docPlayers) =>
                docPlayers'[op[s].team_name] = docPlayers[op[s].team_name]]_vars

\* C18: whenever no team or player operation is in progress, the keys of the
\* players map are the names of the team list, and no roster holds the same
\* player twice.
C18_TeamsMatchRosters ==
    (\A s \in 1..NumSessions : op[s].pc = "idle") =>
        /\ DOMAIN docPlayers = Range(docTeams)
        /\ \A t \in DOMAIN docPlayers : Injective(docPlayers[t])

----------------------------------------------------------------------------
(* Properties of the generators: the caller's list and the rounds *)

\* C16: the three generators leave the caller's team list as it was: the same
\* elements in the same order, no "BYE" appended, for every input size.
C16_InputUnchanged ==
    genCall # "none" => genTeams = genInput

\* The matches of round r that team t plays.
InRound(matches, r, t) ==
    {i \in DOMAIN matches :
        matches[i].round = r /\ t \in {matches[i].team1, matches[i].team2}}

\* C17: round-robin generation on k >= 2 teams, n being k rounded up to even,
\* tags every match with a round in 1..n-1, emits the matches in non-decreasing
\* round order, and puts no team in two matches of a round; for even k every
\* team plays exactly once in each of the n-1 rounds; for odd k exactly one
\* team sits out each round and every team sits out exactly one round.
C17_RoundStructure ==
    (genCall = "round_robin" /\ Len(genInput) >= 2) =>
        LET k == Len(genInput)
            n == k + (k % 2)
            T == Range(genInput)
            rounds == 1..(n - 1)
            Idle(r) == {t \in T : InRound(genOut, r, t) = {}}
        IN  /\ \A i \in DOMAIN genOut : genOut[i].round \in rounds
            /\ \A i, j \in DOMAIN genOut : i < j => genOut[i].round <= genOut[j].round
            /\ \A r \in rounds, t \in T : Cardinality(InRound(genOut, r, t)) <= 1
            /\ k % 2 = 0 =>
                  \A r \in rounds, t \in T : Cardinality(InRound(genOut, r, t)) = 1
            /\ k % 2 = 1 =>
                  /\ \A r \in rounds : Cardinality(Idle(r)) = 1
                  /\ \A t \in T : Cardinality({r \in rounds : t \in Idle(r)}) = 1

\* Five teams: five rounds of two matches, the first team sitting out round 1.
C17_Witness ==
    /\ genCall = "round_robin"
    /\ Len(genInput) = 5
    /\ genOut[1].round = 1
    /\ genOut[Len(genOut)].round = 5
    /\ InRound(genOut, 1, genInput[1]) = {}
    /\ \A r \in 1..5 : Cardinality({i \in DOMAIN genOut : genOut[i].round = r}) = 2

====
